---- MODULE Spec2Model ----
(***************************************************************************)
(* yamleditor: path compiler (pkg/path/parser.go), navigator               *)
(* (pkg/path/navigator.go), mutation engine (pkg/engine), rule loader      *)
(* (pkg/rule/loader.go) and the per-document rule loop of the processor.   *)
(*                                                                         *)
(* A Go string is a sequence of one-character strings, so that the byte    *)
(* scans of the parser are modelled as scans.  The only multi-character    *)
(* element is the regex token "(?!a)" (a negative lookahead): it holds no  *)
(* character the path parser looks at ('.', '[', ']', '@', '=', '*', '?',  *)
(* digits, signs), so every scan treats it as it treats an ordinary        *)
(* character.  Go indexes from 0, the sequences here from 1.               *)
(***************************************************************************)
EXTENDS Integers, Sequences, FiniteSets, TLC

VARIABLES
    phase,      \* position of the scenario being run
    pathStr,    \* argument of path.Parse
    pathComps,  \* the grammar segments pathStr was joined from (<<>>: free text)
    parsed,     \* result of path.Parse(pathStr)
    heap,       \* the yaml.Node store: node id -> node
    heap0,      \* the store when the document was loaded
    rules,      \* Processor.rules / the rule handed to Engine.Apply
    ruleIdx,    \* index of the next rule of ProcessFile's loop
    found,      \* result of Navigator.Find / FindWithWhere
    applyErr,   \* error of the last Engine.Apply / Validate / ProcessFile ("" = nil)
    walk,       \* filepath.Walk of ProcessDirectory: its entries, position and options
    result      \* the ProcessResult of ProcessDirectory

vars == <<phase, pathStr, pathComps, parsed, heap, heap0, rules, ruleIdx, found, applyErr,
          walk, result>>

(***************************************************************************)
(* Strings                                                                 *)
(***************************************************************************)
Digits == {"0", "1", "2", "3", "4", "5", "6", "7", "8", "9"}

DigitVal(c) ==
    CASE c = "0" -> 0 [] c = "1" -> 1 [] c = "2" -> 2 [] c = "3" -> 3 [] c = "4" -> 4
      [] c = "5" -> 5 [] c = "6" -> 6 [] c = "7" -> 7 [] c = "8" -> 8 [] c = "9" -> 9

\* strings.Contains(s, c) for a one-character c
Contains(s, c) == \E i \in 1..Len(s) : s[i] = c

\* strings.Index(s, c) for a one-character c, 1-based; 0 stands for Go's -1
IndexOf(s, c) ==
    IF Contains(s, c) THEN CHOOSE i \in 1..Len(s) : s[i] = c /\ \A j \in 1..(i-1) : s[j] # c
    ELSE 0

\* strings.HasPrefix(s, c) and strings.HasSuffix(s, c) for a one-character c
HasPrefix(s, c) == Len(s) >= 1 /\ s[1] = c
HasSuffix(s, c) == Len(s) >= 1 /\ s[Len(s)] = c

\* strings.Trim(s, c): every leading and every trailing c removed
Trim(s, c) ==
    IF \A i \in 1..Len(s) : s[i] = c THEN <<>>
    ELSE LET lo == CHOOSE i \in 1..Len(s) : s[i] # c /\ \A j \in 1..(i-1) : s[j] = c
             hi == CHOOSE i \in 1..Len(s) : s[i] # c /\ \A j \in (i+1)..Len(s) : s[j] = c
         IN SubSeq(s, lo, hi)

RECURSIVE atoiDigits(_, _, _)
atoiDigits(s, i, acc) ==
    IF i > Len(s) THEN acc ELSE atoiDigits(s, i + 1, acc * 10 + DigitVal(s[i]))

\* strconv.Atoi: an optional sign, then one or more decimal digits
atoiOk(s) ==
    LET body == IF Len(s) >= 1 /\ s[1] \in {"+", "-"} THEN Tail(s) ELSE s
    IN Len(body) >= 1 /\ \A i \in 1..Len(body) : body[i] \in Digits

atoiVal(s) ==
    LET neg  == Len(s) >= 1 /\ s[1] = "-"
        body == IF Len(s) >= 1 /\ s[1] \in {"+", "-"} THEN Tail(s) ELSE s
        n    == atoiDigits(body, 1, 0)
    IN IF neg THEN 0 - n ELSE n

(***************************************************************************)
(* Regular expressions.  The patterns of the model are sequences over      *)
(* RegexTokens; on that fragment the two engines the code uses differ in   *)
(* one way: dlclark/regexp2 (the .NET dialect) compiles a lookahead, Go's  *)
(* regexp (RE2) rejects it.  "(" is an unclosed group, an error in both.   *)
(***************************************************************************)
RegexTokens == {"a", "b", ".", "]", "(?!a)", "("}

\* regexp2.Compile(pattern, 0) returns nil
regexp2Compile(pattern) == ~Contains(pattern, "(")

\* regexp.Compile(pattern) returns nil
regexpCompile(pattern) == ~Contains(pattern, "(") /\ ~Contains(pattern, "(?!a)")

\* the pattern, from its token i on, matches s from position j on (a prefix of it)
RECURSIVE matchHere(_, _, _, _)
matchHere(pattern, i, s, j) ==
    IF i > Len(pattern) THEN TRUE
    ELSE IF pattern[i] = "(?!a)"
         THEN ~(j <= Len(s) /\ s[j] = "a") /\ matchHere(pattern, i + 1, s, j)
         ELSE /\ j <= Len(s)
              /\ (pattern[i] = "." \/ pattern[i] = s[j])
              /\ matchHere(pattern, i + 1, s, j + 1)

\* regexp.MatchString(pattern, s): [err, matched]; unanchored search
regexpMatchString(pattern, s) ==
    IF ~regexpCompile(pattern) THEN [err |-> TRUE, matched |-> FALSE]
    ELSE [err |-> FALSE, matched |-> \E j \in 1..(Len(s) + 1) : matchHere(pattern, 1, s, j)]

(***************************************************************************)
(* pkg/path/parser.go                                                      *)
(***************************************************************************)
NoSelector == [Type |-> "None", Field |-> <<>>, Op |-> "OpEqual", Value |-> <<>>, Index |-> 0]

\* the loop of splitPath: parts, current and inBracket after the characters from i on
RECURSIVE splitLoop(_, _, _, _, _)
splitLoop(s, i, parts, current, inBracket) ==
    IF i > Len(s)
    THEN IF Len(current) > 0 THEN Append(parts, current) ELSE parts
    ELSE LET ch == s[i] IN
         CASE ch = "[" -> splitLoop(s, i + 1, parts, Append(current, ch), TRUE)
           [] ch = "]" -> splitLoop(s, i + 1, parts, Append(current, ch), FALSE)
           [] ch = "." ->
                IF inBracket THEN splitLoop(s, i + 1, parts, Append(current, ch), inBracket)
                ELSE IF Len(current) > 0
                     THEN splitLoop(s, i + 1, Append(parts, current), <<>>, inBracket)
                     ELSE splitLoop(s, i + 1, parts, current, inBracket)
           [] OTHER -> splitLoop(s, i + 1, parts, Append(current, ch), inBracket)

splitPath(s) == splitLoop(s, 1, <<>>, <<>>, FALSE)

\* findClosingBracket(s, start): the first ']' outside @...@ from start on; 0 for -1
RECURSIVE findClosingBracket_loop(_, _, _)
findClosingBracket_loop(s, i, inRegex) ==
    IF i > Len(s) THEN 0
    ELSE LET nowIn == IF s[i] = "@" THEN ~inRegex ELSE inRegex IN
         IF s[i] = "]" /\ ~nowIn THEN i
         ELSE findClosingBracket_loop(s, i + 1, nowIn)

findClosingBracket(s, start) == findClosingBracket_loop(s, start, FALSE)

parseSelector(selectorStr) ==
    IF selectorStr = <<"*">> \/ selectorStr = <<"?">>
    THEN [err |-> "", Selector |-> [NoSelector EXCEPT !.Type = "Wildcard"]]
    ELSE IF atoiOk(selectorStr)
    THEN [err |-> "",
          Selector |-> [Type |-> "Index", Field |-> <<"_", "i", "n", "d", "e", "x">>,
                        Op |-> "OpEqual", Value |-> <<>>, Index |-> atoiVal(selectorStr)]]
    ELSE IF Contains(selectorStr, "=")
    THEN LET eq    == IndexOf(selectorStr, "=")
             field == SubSeq(selectorStr, 1, eq - 1)
             value == SubSeq(selectorStr, eq + 1, Len(selectorStr))
         IN IF field = <<>>
            THEN [err |-> "field name cannot be empty", Selector |-> NoSelector]
            ELSE IF HasPrefix(value, "@") /\ HasSuffix(value, "@")
            THEN LET pattern == Trim(value, "@") IN
                 IF pattern = <<>>
                 THEN [err |-> "regex pattern cannot be empty", Selector |-> NoSelector]
                 ELSE IF ~regexp2Compile(pattern)
                 THEN [err |-> "invalid regex pattern", Selector |-> NoSelector]
                 ELSE [err |-> "",
                       Selector |-> [Type |-> "Condition", Field |-> field, Op |-> "OpRegex",
                                     Value |-> pattern, Index |-> 0]]
            ELSE [err |-> "",
                  Selector |-> [Type |-> "Condition", Field |-> field, Op |-> "OpEqual",
                                Value |-> value, Index |-> 0]]
    ELSE [err |-> "unknown selector syntax", Selector |-> NoSelector]

NoSegment == [Type |-> "SegmentTypeField", Field |-> <<>>, Selector |-> NoSelector]

parseArraySegment(part) ==
    LET bracketStart == IndexOf(part, "[") IN
    IF bracketStart = 0 THEN [err |-> "no opening bracket", Segment |-> NoSegment]
    ELSE LET field      == SubSeq(part, 1, bracketStart - 1)
             bracketEnd == findClosingBracket(part, bracketStart + 1)
         IN IF bracketEnd = 0 THEN [err |-> "no closing bracket", Segment |-> NoSegment]
            ELSE LET sel == parseSelector(SubSeq(part, bracketStart + 1, bracketEnd - 1)) IN
                 IF sel.err # "" THEN [err |-> sel.err, Segment |-> NoSegment]
                 ELSE [err |-> "",
                       Segment |-> [Type |-> "SegmentTypeArray", Field |-> field,
                                    Selector |-> sel.Selector]]

parseSegment(part) ==
    IF Contains(part, "[") THEN parseArraySegment(part)
    ELSE [err |-> "", Segment |-> [Type |-> "SegmentTypeField", Field |-> part,
                                   Selector |-> NoSelector]]

\* the loop of Parse over the parts: the first failing part ends it
RECURSIVE parseParts(_, _, _)
parseParts(parts, i, segments) ==
    IF i > Len(parts) THEN [err |-> "", Segments |-> segments]
    ELSE LET seg == parseSegment(parts[i]) IN
         IF seg.err # "" THEN [err |-> seg.err, Segments |-> <<>>]
         ELSE parseParts(parts, i + 1, Append(segments, seg.Segment))

Parse(s) ==
    IF s = <<>> THEN [err |-> "empty path", Segments |-> <<>>]
    ELSE parseParts(splitPath(s), 1, <<>>)

NotParsed == [err |-> "not parsed", Segments |-> <<>>]

(***************************************************************************)
(* The document tree: yaml.Node values in a store.  A *yaml.Node is a node *)
(* id (an index of heap); 0 is nil.  Node identity is the id.              *)
(***************************************************************************)
root == 1

Node(kind, tag, value, content) ==
    [Kind |-> kind, Tag |-> tag, Value |-> value, Content |-> content, Alias |-> 0]

\* Go values (interface{}) of a rule's payload and of a document's source
StrV(s)      == [t |-> "string", s |-> s, i |-> 0, b |-> FALSE, ks |-> <<>>, e |-> <<>>]
IntV(i)      == [t |-> "int", s |-> <<>>, i |-> i, b |-> FALSE, ks |-> <<>>, e |-> <<>>]
BoolV(b)     == [t |-> "bool", s |-> <<>>, i |-> 0, b |-> b, ks |-> <<>>, e |-> <<>>]
NilV         == [t |-> "nil", s |-> <<>>, i |-> 0, b |-> FALSE, ks |-> <<>>, e |-> <<>>]
MapV(ks, e)  == [t |-> "map", s |-> <<>>, i |-> 0, b |-> FALSE, ks |-> ks, e |-> e]
SeqV(e)      == [t |-> "seq", s |-> <<>>, i |-> 0, b |-> FALSE, ks |-> <<>>, e |-> e]
\* a value yaml.Node.Encode returns an error for
InvalidV     == [t |-> "invalid", s |-> <<>>, i |-> 0, b |-> FALSE, ks |-> <<>>, e |-> <<>>]

DigitChar(d) ==
    CASE d = 0 -> "0" [] d = 1 -> "1" [] d = 2 -> "2" [] d = 3 -> "3" [] d = 4 -> "4"
      [] d = 5 -> "5" [] d = 6 -> "6" [] d = 7 -> "7" [] d = 8 -> "8" [] d = 9 -> "9"

\* fmt.Sprint of an int
RECURSIVE SprintNat(_)
SprintNat(n) == IF n < 10 THEN <<DigitChar(n)>> ELSE SprintNat(n \div 10) \o <<DigitChar(n % 10)>>

SprintInt(n) == IF n < 0 THEN <<"-">> \o SprintNat(0 - n) ELSE SprintNat(n)

\* fmt.Sprint of a bool
SprintBool(b) == IF b THEN <<"t", "r", "u", "e">> ELSE <<"f", "a", "l", "s", "e">>

Alloc(h, node) == [h |-> Append(h, node), id |-> Len(h) + 1]

\* yaml.Node.Encode(v): the node that represents v; its children are new nodes of
\* the store.  (The keys of a Go map are emitted sorted; the maps of the model are
\* written with sorted keys.)
RECURSIVE Encode(_, _)
RECURSIVE encodeChildren(_, _, _)
encodeChildren(h, v, content) ==
    LET i == (IF v.t = "map" THEN Len(content) \div 2 ELSE Len(content)) + 1  \* the next child
    IN IF i > Len(v.e) THEN [h |-> h, content |-> content]
       ELSE LET val == Encode(h, v.e[i])
                va  == Alloc(val.h, val.node)
            IN IF v.t = "map"
               THEN LET ka == Alloc(va.h, Node("ScalarNode", "!!str", v.ks[i], <<>>))
                    IN encodeChildren(ka.h, v, content \o <<ka.id, va.id>>)
               ELSE encodeChildren(va.h, v, Append(content, va.id))

Encode(h, v) ==
    CASE v.t = "string" -> [h |-> h, node |-> Node("ScalarNode", "!!str", v.s, <<>>)]
      [] v.t = "int"    -> [h |-> h, node |-> Node("ScalarNode", "!!int", SprintInt(v.i), <<>>)]
      [] v.t = "bool"   -> [h |-> h, node |-> Node("ScalarNode", "!!bool", SprintBool(v.b), <<>>)]
      [] v.t = "nil"    -> [h |-> h, node |-> Node("ScalarNode", "!!null", <<"n", "u", "l", "l">>, <<>>)]
      [] v.t = "map"    -> LET c == encodeChildren(h, v, <<>>)
                           IN [h |-> c.h, node |-> Node("MappingNode", "!!map", <<>>, c.content)]
      [] v.t = "seq"    -> LET c == encodeChildren(h, v, <<>>)
                           IN [h |-> c.h, node |-> Node("SequenceNode", "!!seq", <<>>, c.content)]

\* "err := newNode.Encode(v); err != nil": v, or a value it holds, is one Encode
\* rejects
RECURSIVE encodeFails(_)
encodeFails(v) == v.t = "invalid" \/ \E i \in 1..Len(v.e) : encodeFails(v.e[i])

\* yaml.Unmarshal(data, &root): root is a DocumentNode with the document as its child
Unmarshal(v) ==
    LET h0  == <<Node("DocumentNode", "", <<>>, <<>>)>>
        val == Encode(h0, v)
        va  == Alloc(val.h, val.node)
    IN [va.h EXCEPT ![root].Content = <<va.id>>]

(***************************************************************************)
(* pkg/path/navigator.go                                                   *)
(***************************************************************************)
\* the scan "for i := 0; i < len(node.Content); i += 2" for the first key equal to
\* field: the id of its value, 0 when no key is
mappingLookup(h, node, field) ==
    LET c == h[node].Content
        hits == {i \in 1..(Len(c) \div 2) : h[c[2*i - 1]].Value = field}
    IN IF hits = {} THEN 0
       ELSE c[2 * (CHOOSE i \in hits : \A j \in hits : i <= j)]

matchCondition(h, node, cond) ==
    IF h[node].Kind # "MappingNode" THEN FALSE
    ELSE LET v == mappingLookup(h, node, cond.Field) IN
         IF v = 0 THEN FALSE
         ELSE CASE cond.Op = "OpEqual" -> h[v].Value = cond.Value
                [] cond.Op = "OpRegex" ->
                     LET m == regexpMatchString(cond.Value, h[v].Value)
                     IN ~m.err /\ m.matched
                [] OTHER -> FALSE

RECURSIVE findRecursive(_, _, _, _)
RECURSIVE collectElems(_, _, _, _, _, _)

\* the loops of findArray keeping, in place of its results, an element whose
\* remaining segments fail
RECURSIVE collectElems_keepsFailing(_, _, _, _, _, _)
collectElems_keepsFailing(h, elems, i, segments, segmentIdx, sel) ==
    IF i > Len(elems) THEN <<>>
    ELSE LET rest == collectElems_keepsFailing(h, elems, i + 1, segments, segmentIdx, sel) IN
         IF sel.Type = "Condition" /\ ~matchCondition(h, elems[i], sel) THEN rest
         ELSE LET matched == findRecursive(h, elems[i], segments, segmentIdx + 1) IN
              IF matched.err # "" THEN <<elems[i]>> \o rest ELSE matched.nodes \o rest

\* the loops of findArray appending the element itself before its results
RECURSIVE collectElems_alsoElement(_, _, _, _, _, _)
collectElems_alsoElement(h, elems, i, segments, segmentIdx, sel) ==
    IF i > Len(elems) THEN <<>>
    ELSE LET rest == collectElems_alsoElement(h, elems, i + 1, segments, segmentIdx, sel) IN
         IF sel.Type = "Condition" /\ ~matchCondition(h, elems[i], sel) THEN rest
         ELSE LET matched == findRecursive(h, elems[i], segments, segmentIdx + 1) IN
              IF matched.err # "" THEN rest ELSE <<elems[i]>> \o matched.nodes \o rest

\* the loops of findArray over arrayNode.Content (Wildcard: every element;
\* Condition: the elements matchCondition accepts); an element whose remaining
\* segments fail is skipped
collectElems(h, elems, i, segments, segmentIdx, sel) ==
    IF i > Len(elems) THEN <<>>
    ELSE LET rest == collectElems(h, elems, i + 1, segments, segmentIdx, sel) IN
         IF sel.Type = "Condition" /\ ~matchCondition(h, elems[i], sel) THEN rest
         ELSE LET matched == findRecursive(h, elems[i], segments, segmentIdx + 1) IN
              IF matched.err # "" THEN rest ELSE matched.nodes \o rest

findField(h, node, segments, segmentIdx) ==
    IF h[node].Kind # "MappingNode" THEN [err |-> "expected mapping node", nodes |-> <<>>]
    ELSE LET v == mappingLookup(h, node, segments[segmentIdx].Field) IN
         IF v = 0 THEN [err |-> "field not found", nodes |-> <<>>]
         ELSE findRecursive(h, v, segments, segmentIdx + 1)

\* findArray with the Condition selector as lenient as the Wildcard: no survivor is
\* an empty success
findArray_emptySuccess(h, node, segments, segmentIdx) ==
    LET segment == segments[segmentIdx] IN
    IF h[node].Kind # "MappingNode"
    THEN [err |-> "expected mapping node for array field", nodes |-> <<>>]
    ELSE LET arrayNode == mappingLookup(h, node, segment.Field) IN
         IF arrayNode = 0 THEN [err |-> "array field not found", nodes |-> <<>>]
         ELSE IF h[arrayNode].Kind # "SequenceNode"
         THEN [err |-> "field is not an array", nodes |-> <<>>]
         ELSE LET elems == h[arrayNode].Content IN
              IF segment.Selector.Type = "Index"
              THEN LET idx == segment.Selector.Index IN
                   IF idx < 0 \/ idx >= Len(elems)
                   THEN [err |-> "index out of range", nodes |-> <<>>]
                   ELSE findRecursive(h, elems[idx + 1], segments, segmentIdx + 1)
              ELSE [err |-> "",
                    nodes |-> collectElems(h, elems, 1, segments, segmentIdx, segment.Selector)]

\* findArray with a negative index counted from the end of the Sequence
findArray_negativeFromEnd(h, node, segments, segmentIdx) ==
    LET segment == segments[segmentIdx] IN
    IF h[node].Kind # "MappingNode"
    THEN [err |-> "expected mapping node for array field", nodes |-> <<>>]
    ELSE LET arrayNode == mappingLookup(h, node, segment.Field) IN
         IF arrayNode = 0 THEN [err |-> "array field not found", nodes |-> <<>>]
         ELSE IF h[arrayNode].Kind # "SequenceNode"
         THEN [err |-> "field is not an array", nodes |-> <<>>]
         ELSE LET elems == h[arrayNode].Content IN
              CASE segment.Selector.Type = "Wildcard" ->
                     [err |-> "",
                      nodes |-> collectElems(h, elems, 1, segments, segmentIdx, segment.Selector)]
                [] segment.Selector.Type = "Index" ->
                     LET idx == IF segment.Selector.Index < 0
                                THEN Len(elems) + segment.Selector.Index
                                ELSE segment.Selector.Index IN
                     IF idx < 0 \/ idx >= Len(elems)
                     THEN [err |-> "index out of range", nodes |-> <<>>]
                     ELSE findRecursive(h, elems[idx + 1], segments, segmentIdx + 1)
                [] segment.Selector.Type = "Condition" ->
                     LET results == collectElems(h, elems, 1, segments, segmentIdx,
                                                 segment.Selector)
                     IN IF Len(results) = 0
                        THEN [err |-> "no elements match condition", nodes |-> <<>>]
                        ELSE [err |-> "", nodes |-> results]
                [] OTHER -> [err |-> "unknown selector type", nodes |-> <<>>]

findArray(h, node, segments, segmentIdx) ==
    LET segment == segments[segmentIdx] IN
    IF h[node].Kind # "MappingNode"
    THEN [err |-> "expected mapping node for array field", nodes |-> <<>>]
    ELSE LET arrayNode == mappingLookup(h, node, segment.Field) IN
         IF arrayNode = 0 THEN [err |-> "array field not found", nodes |-> <<>>]
         ELSE IF h[arrayNode].Kind # "SequenceNode"
         THEN [err |-> "field is not an array", nodes |-> <<>>]
         ELSE LET elems == h[arrayNode].Content IN
              CASE segment.Selector.Type = "Wildcard" ->
                     [err |-> "",
                      nodes |-> collectElems(h, elems, 1, segments, segmentIdx, segment.Selector)]
                [] segment.Selector.Type = "Index" ->
                     LET idx == segment.Selector.Index IN
                     IF idx < 0 \/ idx >= Len(elems)
                     THEN [err |-> "index out of range", nodes |-> <<>>]
                     ELSE findRecursive(h, elems[idx + 1], segments, segmentIdx + 1)
                [] segment.Selector.Type = "Condition" ->
                     LET results == collectElems(h, elems, 1, segments, segmentIdx,
                                                 segment.Selector)
                     IN IF Len(results) = 0
                        THEN [err |-> "no elements match condition", nodes |-> <<>>]
                        ELSE [err |-> "", nodes |-> results]
                [] OTHER -> [err |-> "unknown selector type", nodes |-> <<>>]

findRecursive(h, node, segments, segmentIdx) ==
    IF segmentIdx > Len(segments) THEN [err |-> "", nodes |-> <<node>>]
    ELSE IF h[node].Kind = "DocumentNode"
    THEN IF Len(h[node].Content) = 0 THEN [err |-> "empty document", nodes |-> <<>>]
         ELSE findRecursive(h, h[node].Content[1], segments, segmentIdx)
    ELSE IF h[node].Kind = "AliasNode"
    THEN findRecursive(h, h[node].Alias, segments, segmentIdx)
    ELSE IF segments[segmentIdx].Type = "SegmentTypeField"
    THEN findField(h, node, segments, segmentIdx)
    ELSE findArray(h, node, segments, segmentIdx)

Find(h, node, path) == findRecursive(h, node, path.Segments, 1)

NoWhere == [IsNil |-> TRUE, NameRegex |-> <<>>, NameNotIn |-> <<>>, NameIn |-> <<>>]

matchWhere(h, node, where) ==
    IF h[node].Kind # "MappingNode" THEN FALSE
    ELSE LET v == mappingLookup(h, node, <<"n", "a", "m", "e">>)
             nameValue == IF v = 0 THEN <<>> ELSE h[v].Value
         IN /\ nameValue # <<>>
            /\ (where.NameRegex # <<>> =>
                    LET m == regexpMatchString(where.NameRegex, nameValue)
                    IN ~m.err /\ m.matched)
            /\ (Len(where.NameNotIn) > 0 =>
                    \A i \in 1..Len(where.NameNotIn) : nameValue # where.NameNotIn[i])
            /\ (Len(where.NameIn) > 0 =>
                    \E i \in 1..Len(where.NameIn) : nameValue = where.NameIn[i])

RECURSIVE filterWhere(_, _, _, _)
filterWhere(h, candidates, i, where) ==
    IF i > Len(candidates) THEN <<>>
    ELSE IF matchWhere(h, candidates[i], where)
         THEN <<candidates[i]>> \o filterWhere(h, candidates, i + 1, where)
         ELSE filterWhere(h, candidates, i + 1, where)

\* FindWithWhere after "candidates, err := n.Find(root, path)"
findWithWhere_filter(h, where, candidates) ==
    IF candidates.err # "" THEN candidates
    ELSE IF where.IsNil THEN candidates
    ELSE [err |-> "", nodes |-> filterWhere(h, candidates.nodes, 1, where)]

FindWithWhere(h, node, path, where) == findWithWhere_filter(h, where, Find(h, node, path))

(***************************************************************************)
(* pkg/engine: Engine.Apply and the four operations.  Each returns         *)
(* [err, h]: the error ("" = nil) and the store it leaves.                 *)
(***************************************************************************)
Rule(action, path, value, pattern, where, cont) ==
    [Action |-> action, Path |-> path, Value |-> value, Pattern |-> pattern,
     Where |-> where, ContinueOnNotFound |-> cont]

\* "p, err := path.Parse(rule.Path)" and "nodes, err := e.navigator.Find(root, p)",
\* the opening of replace, set and regexReplace: the error of either, or the nodes
findParsed(h, p) ==
    IF p.err # "" THEN [err |-> p.err, nodes |-> <<>>] ELSE Find(h, root, p)

parseAndFind(h, rule) == findParsed(h, Parse(rule.Path))

\* "for _, node := range nodes { *node = *newNode }"
RECURSIVE assignAll(_, _, _, _)
assignAll(h, nodes, i, newNode) ==
    IF i > Len(nodes) THEN h
    ELSE assignAll([h EXCEPT ![nodes[i]] = newNode], nodes, i + 1, newNode)

\* replace once newNode.Encode(rule.Value) is done
replace_assign(nodes, enc) == [err |-> "", h |-> assignAll(enc.h, nodes, 1, enc.node)]

\* replace assigning the new node to the resolved nodes before it encodes the value
replace_assignsBeforeEncode(h, rule, f) ==
    IF f.err # "" THEN [err |-> f.err, h |-> h]
    ELSE IF Len(f.nodes) = 0 THEN [err |-> "no nodes found", h |-> h]
    ELSE IF encodeFails(rule.Value)
    THEN [err |-> "encode value", h |-> assignAll(h, f.nodes, 1, Node("", "", <<>>, <<>>))]
    ELSE replace_assign(f.nodes, Encode(h, rule.Value))

\* replace once the path is parsed and resolved to f
replace_found(h, rule, f) ==
    IF f.err # "" THEN [err |-> f.err, h |-> h]
    ELSE IF Len(f.nodes) = 0 THEN [err |-> "no nodes found", h |-> h]
    ELSE IF encodeFails(rule.Value) THEN [err |-> "encode value", h |-> h]
    ELSE replace_assign(f.nodes, Encode(h, rule.Value))

replace(h, rule) == replace_found(h, rule, parseAndFind(h, rule))

\* "*node = *newNode" of set's default case
set_assign(n, enc) == [enc.h EXCEPT ![n] = enc.node]

\* the loop of set leaving the tag of the node as it was
RECURSIVE setAll_keepsTag(_, _, _, _)
setAll_keepsTag(h, nodes, i, v) ==
    IF i > Len(nodes) THEN [err |-> "", h |-> h]
    ELSE LET n == nodes[i] IN
         CASE v.t = "string" ->
                setAll_keepsTag([h EXCEPT ![n].Value = v.s, ![n].Kind = "ScalarNode"],
                                nodes, i + 1, v)
           [] v.t = "int" ->
                setAll_keepsTag([h EXCEPT ![n].Value = SprintInt(v.i), ![n].Kind = "ScalarNode"],
                                nodes, i + 1, v)
           [] v.t = "bool" ->
                setAll_keepsTag([h EXCEPT ![n].Value = SprintBool(v.b), ![n].Kind = "ScalarNode"],
                                nodes, i + 1, v)
           [] OTHER ->
                IF encodeFails(v) THEN [err |-> "encode value", h |-> h]
                ELSE setAll_keepsTag(set_assign(n, Encode(h, v)), nodes, i + 1, v)

\* the loop of set over the nodes: the type switch on rule.Value, node by node; a
\* failing Encode returns from inside the loop
RECURSIVE setAll(_, _, _, _)
setAll(h, nodes, i, v) ==
    IF i > Len(nodes) THEN [err |-> "", h |-> h]
    ELSE LET n == nodes[i] IN
         CASE v.t = "string" ->
                setAll([h EXCEPT ![n].Value = v.s, ![n].Kind = "ScalarNode", ![n].Tag = "!!str"],
                       nodes, i + 1, v)
           [] v.t = "int" ->
                setAll([h EXCEPT ![n].Value = SprintInt(v.i), ![n].Kind = "ScalarNode",
                                 ![n].Tag = "!!int"], nodes, i + 1, v)
           [] v.t = "bool" ->
                setAll([h EXCEPT ![n].Value = SprintBool(v.b), ![n].Kind = "ScalarNode",
                                 ![n].Tag = "!!bool"], nodes, i + 1, v)
           [] OTHER ->
                IF encodeFails(v) THEN [err |-> "encode value", h |-> h]
                ELSE setAll(set_assign(n, Encode(h, v)), nodes, i + 1, v)

\* set without the check of len(nodes)
set_noLenCheck(h, rule, f) ==
    IF f.err # "" THEN [err |-> f.err, h |-> h]
    ELSE setAll(h, f.nodes, 1, rule.Value)

\* set once the path is parsed and resolved to f
set_found(h, rule, f) ==
    IF f.err # "" THEN [err |-> f.err, h |-> h]
    ELSE IF Len(f.nodes) = 0 THEN [err |-> "no nodes found", h |-> h]
    ELSE setAll(h, f.nodes, 1, rule.Value)

set(h, rule) == set_found(h, rule, parseAndFind(h, rule))

\* deleteNodeRecursive: the store after the walk from node.  step is 2 for a
\* Mapping (key, value pairs) and 1 for a Sequence; node.Content is assigned after
\* the loop, from the entries kept.
RECURSIVE deleteNodeRecursive(_, _, _)
RECURSIVE deleteLoop(_, _, _, _, _, _)
RECURSIVE deleteChildren(_, _, _, _)
RECURSIVE deleteLoop_noDescent(_, _, _, _, _, _)
\* DocumentNode: every child is walked, node.Content is left as it is
deleteChildren(h, content, i, target) ==
    IF i > Len(content) THEN h
    ELSE deleteChildren(deleteNodeRecursive(h, content[i], target), content, i + 1, target)

\* the loop of deleteNodeRecursive without the walk into the entries it keeps
deleteLoop_noDescent(h, content, i, step, target, newContent) ==
    IF i + step - 1 > Len(content) THEN [h |-> h, newContent |-> newContent]
    ELSE LET valueNode == content[i + step - 1] IN
         IF valueNode = target
         THEN deleteLoop_noDescent(h, content, i + step, step, target, newContent)
         ELSE deleteLoop_noDescent(h, content, i + step, step, target,
                                   newContent \o SubSeq(content, i, i + step - 1))

\* MappingNode and SequenceNode: the entry whose value is the target is dropped,
\* every kept value is walked
deleteLoop(h, content, i, step, target, newContent) ==
    IF i + step - 1 > Len(content) THEN [h |-> h, newContent |-> newContent]
    ELSE LET valueNode == content[i + step - 1] IN
         IF valueNode = target
         THEN deleteLoop(h, content, i + step, step, target, newContent)
         ELSE deleteLoop(deleteNodeRecursive(h, valueNode, target), content, i + step, step,
                         target, newContent \o SubSeq(content, i, i + step - 1))

deleteNodeRecursive(h, node, target) ==
    CASE h[node].Kind = "DocumentNode" ->
           deleteChildren(h, h[node].Content, 1, target)
      [] h[node].Kind = "MappingNode" ->
           LET r == deleteLoop(h, h[node].Content, 1, 2, target, <<>>)
           IN [r.h EXCEPT ![node].Content = r.newContent]
      [] h[node].Kind = "SequenceNode" ->
           LET r == deleteLoop(h, h[node].Content, 1, 1, target, <<>>)
           IN [r.h EXCEPT ![node].Content = r.newContent]
      [] OTHER -> h

deleteNode(h, target) == deleteNodeRecursive(h, root, target)

RECURSIVE deleteAll(_, _, _)
deleteAll(h, nodes, i) ==
    IF i > Len(nodes) THEN h ELSE deleteAll(deleteNode(h, nodes[i]), nodes, i + 1)

\* "p, err := path.Parse(rule.Path)" and "e.navigator.FindWithWhere(root, p,
\* rule.Where)", the opening of delete
findWhereParsed(h, p, where) ==
    IF p.err # "" THEN [err |-> p.err, nodes |-> <<>>] ELSE FindWithWhere(h, root, p, where)

\* delete as strict as replace: no candidate is an error
delete_failsOnEmpty(h, f) ==
    IF f.err # "" THEN [err |-> f.err, h |-> h]
    ELSE IF Len(f.nodes) = 0 THEN [err |-> "no nodes found", h |-> h]
    ELSE [err |-> "", h |-> deleteAll(h, f.nodes, 1)]

\* delete once the path is parsed and resolved to f
delete_found(h, f) ==
    IF f.err # "" THEN [err |-> f.err, h |-> h]
    ELSE IF Len(f.nodes) = 0 THEN [err |-> "", h |-> h]
    ELSE [err |-> "", h |-> deleteAll(h, f.nodes, 1)]

delete(h, rule) == delete_found(h, findWhereParsed(h, Parse(rule.Path), rule.Where))

\* regexp.ReplaceAllString on the patterns regexp.Compile accepts here (every token
\* takes one character, so a match at j ends at j + Len(pattern) - 1); the
\* replacements of the model hold no '$'
RECURSIVE ReplaceAllString(_, _, _, _)
ReplaceAllString(pattern, src, j, repl) ==
    IF j > Len(src) THEN <<>>
    ELSE IF matchHere(pattern, 1, src, j)
         THEN repl \o ReplaceAllString(pattern, src, j + Len(pattern), repl)
         ELSE <<src[j]>> \o ReplaceAllString(pattern, src, j + 1, repl)

\* the loop of regexReplace stopping after the first node it rewrites
RECURSIVE regexReplaceAll_firstOnly(_, _, _, _, _)
regexReplaceAll_firstOnly(h, nodes, i, pattern, replacement) ==
    IF i > Len(nodes) THEN h
    ELSE LET n == nodes[i] IN
         IF h[n].Kind # "ScalarNode"
         THEN regexReplaceAll_firstOnly(h, nodes, i + 1, pattern, replacement)
         ELSE [h EXCEPT ![n].Value = ReplaceAllString(pattern, h[n].Value, 1, replacement)]

RECURSIVE regexReplaceAll(_, _, _, _, _)
regexReplaceAll(h, nodes, i, pattern, replacement) ==
    IF i > Len(nodes) THEN h
    ELSE LET n == nodes[i] IN
         IF h[n].Kind # "ScalarNode" THEN regexReplaceAll(h, nodes, i + 1, pattern, replacement)
         ELSE regexReplaceAll(
                  [h EXCEPT ![n].Value = ReplaceAllString(pattern, h[n].Value, 1, replacement)],
                  nodes, i + 1, pattern, replacement)

\* regexReplace once the path is parsed and resolved to f
regexReplace_found(h, rule, f) ==
    IF f.err # "" THEN [err |-> f.err, h |-> h]
    ELSE IF Len(f.nodes) = 0 THEN [err |-> "no nodes found", h |-> h]
    ELSE IF rule.Pattern = <<>> THEN [err |-> "pattern is required for regex_replace", h |-> h]
    ELSE IF ~regexpCompile(rule.Pattern) THEN [err |-> "compile regex", h |-> h]
    ELSE IF rule.Value.t # "string" THEN [err |-> "replacement must be string", h |-> h]
    ELSE [err |-> "", h |-> regexReplaceAll(h, f.nodes, 1, rule.Pattern, rule.Value.s)]

regexReplace(h, rule) == regexReplace_found(h, rule, parseAndFind(h, rule))

Apply(h, rule) ==
    CASE rule.Action = "replace"       -> replace(h, rule)
      [] rule.Action = "set"           -> set(h, rule)
      [] rule.Action = "delete"        -> delete(h, rule)
      [] rule.Action = "regex_replace" -> regexReplace(h, rule)
      [] OTHER                         -> [err |-> "unknown action", h |-> h]

(***************************************************************************)
(* pkg/rule/loader.go                                                      *)
(***************************************************************************)
Validate(rule) ==
    IF rule.Path = <<>> THEN "path is required"
    ELSE CASE rule.Action = "replace" ->
                IF rule.Value.t = "nil" THEN "value is required" ELSE ""
           [] rule.Action = "regex_replace" ->
                IF rule.Pattern = <<>> THEN "pattern is required for regex_replace"
                ELSE IF rule.Value.t = "nil" THEN "value (replacement) is required for regex_replace"
                ELSE IF rule.Value.t # "string" THEN "value must be string for regex_replace"
                ELSE ""
           [] rule.Action = "delete" -> ""
           [] OTHER -> "unknown action"

(***************************************************************************)
(* pkg/processor: one turn of the rule loop of ProcessFile                 *)
(* "for i, r := range p.rules { if err := p.engine.Apply(&root, r) ... }". *)
(***************************************************************************)
\* the rule loop going on to the next rule after a failed one
ProcessFileRule_skipFailed(i, r) ==
    [phase |-> "running", heap |-> r.h, ruleIdx |-> i + 1, err |-> r.err]

\* the turn for rule i (1-based), r being what Apply returned for it
ProcessFileRule(i, r) ==
    IF r.err # ""
    THEN [phase |-> "failed", heap |-> r.h, ruleIdx |-> i, err |-> r.err]
    ELSE [phase |-> "running", heap |-> r.h, ruleIdx |-> i + 1, err |-> ""]

(***************************************************************************)
(* pkg/processor: ProcessFile as ProcessDirectory calls it, and the        *)
(* callback ProcessDirectory hands to filepath.Walk.  An entry of the walk *)
(* is [name, isDir, walkErr, relErr, backupErr, io, parses, doc]: what the *)
(* file system answers for it (walkErr: Walk calls the callback with an    *)
(* error; io: the step of ProcessFile the system fails, "" for none) and   *)
(* the document the file holds.  The position of an entry in the walk      *)
(* stands for its path.                                                    *)
(***************************************************************************)
\* strings.HasSuffix(s, suffix)
HasSuffixStr(s, suffix) ==
    Len(s) >= Len(suffix) /\ SubSeq(s, Len(s) - Len(suffix) + 1, Len(s)) = suffix

\* ProcessFile after the rule loop: the encoder, then the dry-run print or the
\* output directory and the write
ProcessFile_write(entry, dryRun) ==
    IF entry.io = "marshal yaml" THEN "marshal yaml"
    ELSE IF dryRun THEN ""
    ELSE IF entry.io = "create output dir" THEN "create output dir"
    ELSE IF entry.io = "write file" THEN "write file"
    ELSE ""

\* the rule loop of ProcessFile from rule i on; r is what Apply returned for rule i
RECURSIVE ProcessFile_loop(_, _, _, _, _)
ProcessFile_applied(rs, i, r, entry, dryRun) ==
    IF r.err # "" THEN "apply rule"
    ELSE ProcessFile_loop(r.h, rs, i + 1, entry, dryRun)

ProcessFile_loop(h, rs, i, entry, dryRun) ==
    IF i > Len(rs) THEN ProcessFile_write(entry, dryRun)
    ELSE ProcessFile_applied(rs, i, Apply(h, rs[i]), entry, dryRun)

\* Processor.ProcessFile(inputPath, outputPath, dryRun): its error ("" = nil)
ProcessFile(entry, rs, dryRun) ==
    IF entry.io = "read file" THEN "read file"
    ELSE IF ~entry.parses THEN "parse yaml"
    ELSE ProcessFile_loop(Unmarshal(entry.doc), rs, 1, entry, dryRun)

\* copyFile(path, path + ".bak") returns an error: the read or the write fails
copyFileFails(entry) == entry.io = "read file" \/ entry.backupErr

\* "result.FailedFiles = append(result.FailedFiles, FailedFile{path, err}); return nil"
walkFn_failed(res, pos, err) ==
    [result |-> [res EXCEPT !.FailedFiles = Append(@, [Path |-> pos, Error |-> err])],
     err |-> ""]

\* the callback once ProcessFile has returned err
walkFn_processed(res, pos, err) ==
    IF err # "" THEN walkFn_failed(res, pos, err)
    ELSE [result |-> [res EXCEPT !.SuccessFiles = @ + 1], err |-> ""]

\* the callback with TotalFiles incremented after the relative path and the backup
walkFn_countsLate(entry, pos, res, opts, rs) ==
    IF entry.walkErr THEN [result |-> res, err |-> "walk"]
    ELSE IF entry.isDir \/ (~HasSuffixStr(entry.name, <<".", "y", "a", "m", "l">>)
                            /\ ~HasSuffixStr(entry.name, <<".", "y", "m", "l">>))
    THEN [result |-> res, err |-> ""]
    ELSE IF entry.relErr THEN walkFn_failed(res, pos, "compute relative path")
    ELSE IF opts.backup /\ ~opts.dryRun /\ ~opts.outputDir /\ copyFileFails(entry)
    THEN walkFn_failed(res, pos, "backup file")
    ELSE walkFn_processed([res EXCEPT !.TotalFiles = @ + 1], pos,
                          ProcessFile(entry, rs, opts.dryRun))

\* the callback of filepath.Walk for the entry at pos: the ProcessResult it leaves
\* and the error it returns to Walk ("" = nil)
walkFn(entry, pos, res, opts, rs) ==
    IF entry.walkErr THEN [result |-> res, err |-> "walk"]
    ELSE IF entry.isDir \/ (~HasSuffixStr(entry.name, <<".", "y", "a", "m", "l">>)
                            /\ ~HasSuffixStr(entry.name, <<".", "y", "m", "l">>))
    THEN [result |-> res, err |-> ""]
    ELSE IF entry.relErr
    THEN walkFn_failed([res EXCEPT !.TotalFiles = @ + 1], pos, "compute relative path")
    ELSE IF opts.backup /\ ~opts.dryRun /\ ~opts.outputDir /\ copyFileFails(entry)
    THEN walkFn_failed([res EXCEPT !.TotalFiles = @ + 1], pos, "backup file")
    ELSE walkFn_processed([res EXCEPT !.TotalFiles = @ + 1], pos,
                          ProcessFile(entry, rs, opts.dryRun))

(***************************************************************************)
(* Inputs                                                                  *)
(***************************************************************************)
MaxElems == 2       \* elements of the document's sequence "s"
MaxRules == 2       \* rules of a rule file
MaxSegs == 2        \* segments of a path drawn from the grammar
MaxStrLen == 4      \* characters of a free path text

SeqsUpTo(S, n) == UNION {[1..k -> S] : k \in 0..n}

kName == <<"n", "a", "m", "e">>

\* the elements a document's sequence is made of
ElemShapes ==
    { StrV(<<"a">>),
      MapV(<<kName>>, <<StrV(<<"a">>)>>),
      MapV(<<kName, <<"t">>>>, <<StrV(<<"b">>), SeqV(<<MapV(<<kName>>, <<StrV(<<"b">>)>>)>>)>>),
      MapV(<<kName, <<"t">>>>, <<StrV(<<"a">>), SeqV(<<>>)>>) }

\* { m: { t: a }, s: [ ... ] }
DocValue(elems) ==
    MapV(<< <<"m">>, <<"s">> >>, << MapV(<< <<"t">> >>, << StrV(<<"a">>) >>), SeqV(elems) >>)

Docs == {Unmarshal(DocValue(elems)) : elems \in SeqsUpTo(ElemShapes, MaxElems)}

\* the elements of the documents the navigator is run on: also a Mapping whose
\* name is the empty string, and one whose "t" holds two elements
NavElemShapes ==
    ElemShapes \cup
    { MapV(<<kName>>, <<StrV(<<>>)>>),
      MapV(<<kName, <<"t">>>>,
           <<StrV(<<"b">>),
             SeqV(<<MapV(<<kName>>, <<StrV(<<"b">>)>>), MapV(<<kName>>, <<StrV(<<"b">>)>>)>>)>>) }

NavDocs == {Unmarshal(DocValue(elems)) : elems \in SeqsUpTo(NavElemShapes, MaxElems)}

\* Join(comps, "."): the path text of its dot-separated components
RECURSIVE Join(_)
Join(comps) ==
    IF Len(comps) = 0 THEN <<>>
    ELSE IF Len(comps) = 1 THEN comps[1]
    ELSE comps[1] \o <<".">> \o Join(Tail(comps))

\* regex literals of the grammar's selectors, each one regexp2 compiles
GrammarPatterns ==
    { <<"a">>, <<".">>, <<"a", ".">>, <<"]">>, <<"]", ".">>, <<"(?!a)", ".">> }

\* segment ::= name ('[' selector ']')?
GrammarSegments ==
    { <<"a">>, <<"a", "[", "*", "]">>, <<"a", "[", "?", "]">>, <<"a", "[", "0", "]">>,
      <<"a", "[", "a", "=", "b", "]">> }
    \cup { <<"a", "[", "a", "=", "@">> \o pat \o <<"@", "]">> : pat \in GrammarPatterns }

GrammarComps == SeqsUpTo(GrammarSegments, MaxSegs) \ {<<>>}

FreeChars == {"a", "0", ".", "[", "]", "="}

FreeTexts == SeqsUpTo(FreeChars, MaxStrLen)

\* the paths the navigator and the engine are run on
FindPaths ==
    {
      <<"m", ".", "t">>,    \* m.t
      <<"m", ".", "x">>,    \* m.x
      <<"s", "[", "*", "]">>,    \* s[*]
      <<"s", "[", "*", "]", ".", "n", "a", "m", "e">>,    \* s[*].name
      <<"s", "[", "0", "]">>,    \* s[0]
      <<"s", "[", "2", "]">>,    \* s[2]
      <<"s", "[", "n", "a", "m", "e", "=", "a", "]">>,    \* s[name=a]
      <<"s", "[", "n", "a", "m", "e", "=", "b", "]", ".", "t", "[", "*", "]">>,    \* s[name=b].t[*]
      <<"s", "[", "*", "]", ".", "t", "[", "n", "a", "m", "e", "=", "b", "]">>,    \* s[*].t[name=b]
      <<"s", "[", "n", "a", "m", "e", "=", "a", "]", ".", "t", "[", "n", "a", "m", "e", "=", "b", "]">>,    \* s[name=a].t[name=b]
      <<"s", "[", "0", "]", ".", "t", "[", "n", "a", "m", "e", "=", "b", "]">>,    \* s[0].t[name=b]
      <<"s", "[", "n", "a", "m", "e", "=", "@", "(?!a)", ".", "@", "]">>,    \* s[name=@(?!a).@]
      <<"s", "[", "n", "a", "m", "e", "=", "@", "b", "@", "]">>,    \* s[name=@b@]
      <<"m", "[", "*", "]">>,    \* m[*]
      <<"s", "[", "-", "1", "]">>,    \* s[-1]
      <<"s", "[", "1", "]">>,    \* s[1]
      <<"s", "[", "3", "]">>,    \* s[3]
      <<"s", "[", "*", "]", ".", "t", "[", "*", "]">>,    \* s[*].t[*]
      <<"s", "[", "*", "]", ".", "t", "[", "0", "]">> }    \* s[*].t[0]

\* Go's zero values of the results that have not been computed
NoWalk == [entries |-> <<>>, pos |-> 1, dryRun |-> FALSE, backup |-> FALSE, outputDir |-> FALSE]

NoResult == [TotalFiles |-> 0, SuccessFiles |-> 0, FailedFiles |-> <<>>]

NotFound == [err |-> "not run", nodes |-> <<>>]

\* where-clauses of delete rules
Wheres ==
    { NoWhere,
      [IsNil |-> FALSE, NameRegex |-> <<>>, NameNotIn |-> <<>>, NameIn |-> << <<"z">> >>],
      [IsNil |-> FALSE, NameRegex |-> <<"b">>, NameNotIn |-> << <<"a">> >>, NameIn |-> <<>>] }

\* the where-clauses and the paths FindWithWhere is run on
NavWheres ==
    Wheres \cup
    { [IsNil |-> FALSE, NameRegex |-> <<>>, NameNotIn |-> <<>>, NameIn |-> <<>>],
      [IsNil |-> FALSE, NameRegex |-> <<>>, NameNotIn |-> << <<"b">> >>, NameIn |-> <<>>],
      [IsNil |-> FALSE, NameRegex |-> <<".">>, NameNotIn |-> <<>>,
       NameIn |-> << <<"a">>, <<"b">> >>] }

WherePaths ==
    { <<"s", "[", "*", "]">>, <<"s", "[", "0", "]">>, <<"m", ".", "x">>, <<"m", ".", "t">>,
      <<"s", "[", "*", "]", ".", "t", "[", "*", "]">> }

Payloads == { NilV, StrV(<<"b">>), IntV(3), BoolV(TRUE), MapV(<<kName>>, <<StrV(<<"b">>)>>) }

\* the rules Engine.Apply is called with
ApplyRules ==
    { Rule(a, p, v, <<>>, NoWhere, FALSE) : a \in {"replace", "set"}, p \in FindPaths, v \in Payloads }
    \cup { Rule("delete", p, NilV, <<>>, w, FALSE) : p \in FindPaths, w \in Wheres }
    \cup { Rule("regex_replace", p, v, pat, NoWhere, FALSE) :
             p \in FindPaths, v \in {StrV(<<"b">>), IntV(3)}, pat \in {<<>>, <<"a">>, <<"(">>} }
    \cup { Rule(a, p, StrV(<<"b">>), <<>>, NoWhere, FALSE) :
             a \in {"replace", "move"}, p \in {<<>>, <<"m", "[">>} }
    \cup { Rule(a, p, v, <<>>, NoWhere, FALSE) :
             a \in {"replace", "set"}, p \in FindPaths,
             v \in {InvalidV, SeqV(<<StrV(<<"b">>), InvalidV>>)} }

\* what a rule file can hold, rule by rule
FileRules ==
    { Rule(a, p, v, pat, w, FALSE) :
        a \in {"replace", "set", "delete", "regex_replace", "move"},
        p \in {<<>>, <<"m", ".", "t">>},
        v \in Payloads,
        pat \in {<<>>, <<"a">>},
        w \in {NoWhere, [IsNil |-> FALSE, NameRegex |-> <<>>, NameNotIn |-> <<>>,
                         NameIn |-> << <<"z">> >>]} }

\* the rules of a Processor: NewProcessor keeps only rule files whose every rule
\* Validate accepts
ProcessorRules ==
    { r \in
        { Rule("delete", <<"m", ".", "t">>, NilV, <<>>, NoWhere, FALSE),
          Rule("delete", <<"s", "[", "*", "]">>, NilV, <<>>, NoWhere, FALSE),
          Rule("replace", <<"m", ".", "t">>, StrV(<<"b">>), <<>>, NoWhere, TRUE),
          Rule("replace", <<"m", ".", "t">>, StrV(<<"c">>), <<>>, NoWhere, FALSE),
          Rule("replace", <<"s", "[", "0", "]">>, MapV(<<kName>>, <<StrV(<<"b">>)>>), <<>>,
               NoWhere, FALSE),
          Rule("replace", <<"s", "[", "*", "]", ".", "n", "a", "m", "e">>, StrV(<<"c">>), <<>>,
               NoWhere, TRUE),
          Rule("regex_replace", <<"s", "[", "*", "]", ".", "n", "a", "m", "e">>, StrV(<<"a">>),
               <<"b">>, NoWhere, FALSE),
          Rule("regex_replace", <<"m", ".", "t">>, StrV(<<"b", "b">>), <<"a">>, NoWhere, TRUE) }
      : Validate(r) = "" }

MaxFiles == 2       \* entries of the directory ProcessDirectory walks

\* an entry of the walk
Entry(name, isDir, walkErr, relErr, backupErr, io, parses, doc) ==
    [name |-> name, isDir |-> isDir, walkErr |-> walkErr, relErr |-> relErr,
     backupErr |-> backupErr, io |-> io, parses |-> parses, doc |-> doc]

aYaml == <<"a", ".", "y", "a", "m", "l">>
bYml == <<"b", ".", "y", "m", "l">>

\* the entries of the walk: directories, files of other names, and .yaml/.yml files
\* with each step that can fail; the document with an empty "s" fails the rule on
\* s[0]
EntryKinds ==
    { Entry(<<"d", ".", "y", "a", "m", "l">>, TRUE, FALSE, FALSE, FALSE, "", TRUE, NilV),
      Entry(<<"d">>, TRUE, TRUE, FALSE, FALSE, "", TRUE, NilV),
      Entry(<<"c", ".", "t", "x", "t">>, FALSE, FALSE, FALSE, FALSE, "", TRUE, NilV),
      Entry(aYaml \o <<".", "b", "a", "k">>, FALSE, FALSE, FALSE, FALSE, "", TRUE, NilV),
      Entry(aYaml, FALSE, FALSE, FALSE, FALSE, "", TRUE, DocValue(<<StrV(<<"a">>)>>)),
      Entry(bYml, FALSE, FALSE, FALSE, FALSE, "", TRUE, DocValue(<<>>)),
      Entry(aYaml, FALSE, FALSE, TRUE, FALSE, "", TRUE, DocValue(<<StrV(<<"a">>)>>)),
      Entry(aYaml, FALSE, FALSE, FALSE, TRUE, "", TRUE, DocValue(<<StrV(<<"a">>)>>)),
      Entry(bYml, FALSE, FALSE, FALSE, FALSE, "read file", TRUE, NilV),
      Entry(bYml, FALSE, FALSE, FALSE, FALSE, "", FALSE, NilV),
      Entry(aYaml, FALSE, FALSE, FALSE, FALSE, "marshal yaml", TRUE, DocValue(<<StrV(<<"a">>)>>)),
      Entry(aYaml, FALSE, FALSE, FALSE, FALSE, "create output dir", TRUE,
            DocValue(<<StrV(<<"a">>)>>)),
      Entry(aYaml, FALSE, FALSE, FALSE, FALSE, "write file", TRUE, DocValue(<<StrV(<<"a">>)>>)) }

\* the rules of the processor that walks a directory
DirRules ==
    { <<>>,
      <<Rule("replace", <<"s", "[", "0", "]">>, StrV(<<"c">>), <<>>, NoWhere, FALSE)>>,
      <<Rule("delete", <<"m", ".", "t">>, NilV, <<>>, NoWhere, FALSE),
        Rule("replace", <<"s", "[", "0", "]">>, StrV(<<"c">>), <<>>, NoWhere, FALSE)>> }

\* the rules of a sequence of Apply calls: replace and set on every element of "s",
\* then the four actions addressed beneath its first element
SeqRules ==
    { Rule("replace", <<"s", "[", "*", "]">>, MapV(<<kName>>, <<StrV(<<"b">>)>>), <<>>, NoWhere, FALSE),
      Rule("set", <<"s", "[", "*", "]">>, MapV(<<kName>>, <<StrV(<<"b">>)>>), <<>>, NoWhere, FALSE),
      Rule("set", <<"s", "[", "*", "]">>, StrV(<<"b">>), <<>>, NoWhere, FALSE),
      Rule("set", <<"s", "[", "0", "]", ".", "n", "a", "m", "e">>, StrV(<<"c">>), <<>>, NoWhere, FALSE),
      Rule("replace", <<"s", "[", "0", "]", ".", "n", "a", "m", "e">>, IntV(3), <<>>, NoWhere, FALSE),
      Rule("regex_replace", <<"s", "[", "0", "]", ".", "n", "a", "m", "e">>, StrV(<<"a">>), <<"b">>,
           NoWhere, FALSE),
      Rule("delete", <<"s", "[", "0", "]", ".", "n", "a", "m", "e">>, NilV, <<>>, NoWhere, FALSE),
      Rule("set", <<"m">>, IntV(3), <<>>, NoWhere, FALSE) }

(***************************************************************************)
(* Specifications                                                          *)
(***************************************************************************)
\* path.Parse on a path text: one drawn from the grammar, or a free text
InitParse ==
    /\ phase = "parse"
    /\ \/ /\ pathComps \in GrammarComps
          /\ pathStr = Join(pathComps)
       \/ /\ pathComps = <<>>
          /\ pathStr \in FreeTexts
    /\ parsed = NotParsed
    /\ heap = <<>> /\ heap0 = <<>> /\ rules = <<>> /\ ruleIdx = 1
    /\ found = NotFound /\ applyErr = ""
    /\ walk = NoWalk /\ result = NoResult

Compile ==
    /\ phase = "parse"
    /\ phase' = "parsed"
    /\ parsed' = Parse(pathStr)
    /\ UNCHANGED <<pathStr, pathComps, heap, heap0, rules, ruleIdx, found, applyErr, walk, result>>

SpecParse == InitParse /\ [][Compile]_vars

\* Navigator.Find on a loaded document and a compiled path
InitFind ==
    /\ phase = "find"
    /\ pathStr \in FindPaths
    /\ pathComps = <<>>
    /\ parsed = Parse(pathStr)
    /\ heap \in NavDocs
    /\ heap0 = heap
    /\ rules = <<>> /\ ruleIdx = 1
    /\ found = NotFound /\ applyErr = ""
    /\ walk = NoWalk /\ result = NoResult

DoFind ==
    /\ phase = "find"
    /\ phase' = "found"
    /\ found' = Find(heap, root, parsed)
    /\ UNCHANGED <<pathStr, pathComps, parsed, heap, heap0, rules, ruleIdx, applyErr, walk, result>>

SpecFind == InitFind /\ [][DoFind]_vars

\* Navigator.FindWithWhere on a loaded document, a compiled path and the
\* where-clause of a delete rule
InitWhere ==
    /\ phase = "where"
    /\ pathStr \in WherePaths
    /\ pathComps = <<>>
    /\ parsed = Parse(pathStr)
    /\ heap \in NavDocs
    /\ heap0 = heap
    /\ \E w \in NavWheres : rules = <<Rule("delete", pathStr, NilV, <<>>, w, FALSE)>>
    /\ ruleIdx = 1
    /\ found = NotFound /\ applyErr = ""
    /\ walk = NoWalk /\ result = NoResult

DoFindWithWhere ==
    /\ phase = "where"
    /\ phase' = "filtered"
    /\ found' = FindWithWhere(heap, root, parsed, rules[1].Where)
    /\ UNCHANGED <<pathStr, pathComps, parsed, heap, heap0, rules, ruleIdx, applyErr, walk, result>>

SpecWhere == InitWhere /\ [][DoFindWithWhere]_vars

\* Engine.Apply of one rule on a loaded document
InitApply ==
    /\ phase = "apply"
    /\ pathStr = <<>> /\ pathComps = <<>> /\ parsed = NotParsed
    /\ heap \in Docs
    /\ heap0 = heap
    /\ \E r \in ApplyRules : rules = <<r>>
    /\ ruleIdx = 1
    /\ found = NotFound /\ applyErr = ""
    /\ walk = NoWalk /\ result = NoResult

\* the caller of Apply sees the error; the tree was changed in place
Apply_returns(r) ==
    /\ heap' = r.h
    /\ applyErr' = r.err

DoApply ==
    /\ phase = "apply"
    /\ phase' = "applied"
    /\ Apply_returns(Apply(heap, rules[1]))
    /\ UNCHANGED <<pathStr, pathComps, parsed, heap0, rules, ruleIdx, found, walk, result>>

SpecApply == InitApply /\ [][DoApply]_vars

\* rule.Validate on a rule of a rule file
InitValidate ==
    /\ phase = "validate"
    /\ pathStr = <<>> /\ pathComps = <<>> /\ parsed = NotParsed
    /\ heap = <<>> /\ heap0 = <<>>
    /\ \E r \in FileRules : rules = <<r>>
    /\ ruleIdx = 1
    /\ found = NotFound /\ applyErr = ""
    /\ walk = NoWalk /\ result = NoResult

DoValidate ==
    /\ phase = "validate"
    /\ phase' = "validated"
    /\ applyErr' = Validate(rules[1])
    /\ UNCHANGED <<pathStr, pathComps, parsed, heap, heap0, rules, ruleIdx, found, walk, result>>

SpecValidate == InitValidate /\ [][DoValidate]_vars

\* Engine.Apply called rule after rule on one tree by a caller that goes on whatever
\* an Apply returns
InitSeq ==
    /\ phase = "sequence"
    /\ pathStr = <<>> /\ pathComps = <<>> /\ parsed = NotParsed
    /\ heap \in Docs
    /\ heap0 = heap
    /\ rules \in SeqsUpTo(SeqRules, MaxRules)
    /\ ruleIdx = 1
    /\ found = NotFound /\ applyErr = ""
    /\ walk = NoWalk /\ result = NoResult

ApplyNext ==
    /\ phase = "sequence"
    /\ ruleIdx <= Len(rules)
    /\ Apply_returns(Apply(heap, rules[ruleIdx]))
    /\ ruleIdx' = ruleIdx + 1
    /\ UNCHANGED <<phase, pathStr, pathComps, parsed, heap0, rules, found, walk, result>>

SpecSeq == InitSeq /\ [][ApplyNext]_vars

\* Processor.ProcessFile: the rules of the processor, in order, on one document
Init ==
    /\ phase = "running"
    /\ pathStr = <<>> /\ pathComps = <<>> /\ parsed = NotParsed
    /\ heap \in Docs
    /\ heap0 = heap
    /\ rules \in SeqsUpTo(ProcessorRules, MaxRules)
    /\ ruleIdx = 1
    /\ found = NotFound /\ applyErr = ""
    /\ walk = NoWalk /\ result = NoResult

\* the loop's variables after a turn
ProcessFile_turn(r) ==
    /\ phase' = r.phase
    /\ heap' = r.heap
    /\ ruleIdx' = r.ruleIdx
    /\ applyErr' = r.err

\* one turn of the rule loop
ApplyRule ==
    /\ phase = "running"
    /\ ruleIdx <= Len(rules)
    /\ ProcessFile_turn(ProcessFileRule(ruleIdx, Apply(heap, rules[ruleIdx])))
    /\ UNCHANGED <<pathStr, pathComps, parsed, heap0, rules, found, walk, result>>

\* the loop is over: the tree goes to the encoder
Finish ==
    /\ phase = "running"
    /\ ruleIdx > Len(rules)
    /\ phase' = "done"
    /\ UNCHANGED <<pathStr, pathComps, parsed, heap, heap0, rules, ruleIdx, found, applyErr, walk, result>>

Next == ApplyRule \/ Finish

Spec == Init /\ [][Next]_vars

\* Processor.ProcessDirectory: filepath.Walk calls the callback entry after entry,
\* in the order of the walk, on a directory that does not change under the walk
InitDir ==
    /\ phase = "walking"
    /\ pathStr = <<>> /\ pathComps = <<>> /\ parsed = NotParsed
    /\ heap = <<>> /\ heap0 = <<>>
    /\ rules \in DirRules
    /\ ruleIdx = 1
    /\ found = NotFound /\ applyErr = ""
    /\ \E es \in SeqsUpTo(EntryKinds, MaxFiles), d, b, o \in BOOLEAN :
          walk = [entries |-> es, pos |-> 1, dryRun |-> d, backup |-> b, outputDir |-> o]
    /\ result = NoResult

\* what the callback returned: Walk goes on to the next entry, or ends with the error
WalkFn_returns(r) ==
    /\ result' = r.result
    /\ applyErr' = r.err
    /\ IF r.err # ""
       THEN phase' = "walkError" /\ walk' = walk
       ELSE phase' = phase /\ walk' = [walk EXCEPT !.pos = @ + 1]

WalkFn ==
    /\ phase = "walking"
    /\ walk.pos <= Len(walk.entries)
    /\ WalkFn_returns(walkFn(walk.entries[walk.pos], walk.pos, result, walk, rules))
    /\ UNCHANGED <<pathStr, pathComps, parsed, heap, heap0, rules, ruleIdx, found>>

\* Walk returned nil: "return result, nil"
ProcessDirectory_returns ==
    /\ phase = "walking"
    /\ walk.pos > Len(walk.entries)
    /\ phase' = "returned"
    /\ UNCHANGED <<pathStr, pathComps, parsed, heap, heap0, rules, ruleIdx, found, applyErr,
                   walk, result>>

NextDir == WalkFn \/ ProcessDirectory_returns

SpecDir == InitDir /\ [][NextDir]_vars

(***************************************************************************)
(* Claims                                                                  *)
(***************************************************************************)
IsCondition(seg) == seg.Type = "SegmentTypeArray" /\ seg.Selector.Type = "Condition"
IsWildcard(seg)  == seg.Type = "SegmentTypeArray" /\ seg.Selector.Type = "Wildcard"

\* the Sequence nodes segment k's selector is applied to when the segments from i on
\* are resolved from node
RECURSIVE ReachedSeqs(_, _, _, _, _)
ReachedSeqs(h, node, segs, i, k) ==
    IF i > k THEN {}
    ELSE IF h[node].Kind = "DocumentNode"
    THEN IF Len(h[node].Content) = 0 THEN {} ELSE ReachedSeqs(h, h[node].Content[1], segs, i, k)
    ELSE IF h[node].Kind # "MappingNode" THEN {}
    ELSE LET v == mappingLookup(h, node, segs[i].Field) IN
         IF v = 0 THEN {}
         ELSE IF segs[i].Type = "SegmentTypeField" THEN ReachedSeqs(h, v, segs, i + 1, k)
         ELSE IF h[v].Kind # "SequenceNode" THEN {}
         ELSE IF i = k THEN {v}
         ELSE LET c == h[v].Content
                  sel == segs[i].Selector
                  chosen ==
                      CASE sel.Type = "Wildcard" -> 1..Len(c)
                        [] sel.Type = "Index" -> {j \in 1..Len(c) : j = sel.Index + 1}
                        [] OTHER -> {j \in 1..Len(c) : matchCondition(h, c[j], sel)}
              IN UNION {ReachedSeqs(h, c[j], segs, i + 1, k) : j \in chosen}

\* element e matches the condition of segment k and resolves the segments after it
Survives(h, e, segs, k) ==
    /\ matchCondition(h, e, segs[k].Selector)
    /\ findRecursive(h, e, segs, k + 1).err = ""

\* segment k's condition is applied to some Sequence, and no element of any survives
NoSurvivor(h, segs, k) ==
    LET seqs == ReachedSeqs(h, root, segs, 1, k) IN
    /\ seqs # {}
    /\ \A q \in seqs : \A j \in 1..Len(h[q].Content) : ~Survives(h, h[q].Content[j], segs, k)

WildcardBefore(segs, k) == \E j \in 1..(k - 1) : IsWildcard(segs[j])

\* C1 as stated: whenever no element of the Sequence a Condition segment selects
\* survives, find returns the no-match error, wherever the segment stands.
C1_AsStated ==
    (phase = "found" /\ parsed.err = "") =>
        \A k \in 1..Len(parsed.Segments) :
            (IsCondition(parsed.Segments[k]) /\ NoSurvivor(heap, parsed.Segments, k))
                => found.err = "no elements match condition"

\* C1 amended: when no Wildcard segment stands before the Condition segment, zero
\* survivors make find return the no-match error, and find never returns an empty
\* success.
C1_NoMatchWithoutWildcardBefore ==
    (phase = "found" /\ parsed.err = "") =>
        \A k \in 1..Len(parsed.Segments) :
            (IsCondition(parsed.Segments[k]) /\ ~WildcardBefore(parsed.Segments, k)) =>
                /\ NoSurvivor(heap, parsed.Segments, k)
                       => found.err = "no elements match condition"
                /\ found.err = "" => Len(found.nodes) >= 1

C1_Witness ==
    /\ phase = "found" /\ parsed.err = ""
    /\ Len(parsed.Segments) = 2
    /\ IsCondition(parsed.Segments[2]) /\ ~IsWildcard(parsed.Segments[1])
    /\ NoSurvivor(heap, parsed.Segments, 2)
    /\ found.err = "no elements match condition"

TheRule == rules[1]

\* what FindWithWhere gives for the rule on the tree as it was before the call
Candidates == FindWithWhere(heap0, root, Parse(TheRule.Path), TheRule.Where)

\* C2 as stated: a delete whose path and where-clause address no node succeeds and
\* leaves the tree as it was.
C2_AsStated ==
    (/\ phase = "applied" /\ TheRule.Action = "delete" /\ Parse(TheRule.Path).err = ""
     /\ (Candidates.err # "" \/ Len(Candidates.nodes) = 0))
        => (applyErr = "" /\ heap = heap0)

\* C2 amended: a delete whose resolution succeeds with no candidate succeeds and
\* leaves the tree as it was; one whose resolution fails returns that error, the
\* tree as it was.
C2_DeleteOfNothing ==
    (phase = "applied" /\ TheRule.Action = "delete" /\ Parse(TheRule.Path).err = "") =>
        /\ (Candidates.err = "" /\ Len(Candidates.nodes) = 0) => (applyErr = "" /\ heap = heap0)
        /\ Candidates.err # "" => (applyErr = Candidates.err /\ heap = heap0)

C2_Witness ==
    /\ phase = "applied" /\ TheRule.Action = "delete" /\ Parse(TheRule.Path).err = ""
    /\ ~TheRule.Where.IsNil
    /\ Candidates.err = "" /\ Len(Candidates.nodes) = 0
    /\ Len(Find(heap0, root, Parse(TheRule.Path)).nodes) >= 1
    /\ applyErr = "" /\ heap = heap0

\* C3: replace, set and regex_replace on a path that resolves to no node at all
\* fail with "no nodes found"; the tree is as it was.
C3_NoNodesFound ==
    (/\ phase = "applied" /\ TheRule.Action \in {"replace", "set", "regex_replace"}
     /\ Parse(TheRule.Path).err = ""
     /\ Find(heap0, root, Parse(TheRule.Path)).err = ""
     /\ Len(Find(heap0, root, Parse(TheRule.Path)).nodes) = 0)
        => (applyErr = "no nodes found" /\ heap = heap0)

C3_Witness ==
    /\ phase = "applied" /\ TheRule.Action = "set"
    /\ Parse(TheRule.Path).err = ""
    /\ Find(heap0, root, Parse(TheRule.Path)).err = ""
    /\ Len(Find(heap0, root, Parse(TheRule.Path)).nodes) = 0
    /\ applyErr = "no nodes found"

\* the errors of a path that finds no node
NoNodeErrors ==
    { "field not found", "array field not found", "no elements match condition",
      "index out of range", "no nodes found" }

\* C4: a non-delete rule whose path finds no node aborts the document only when its
\* continue_on_not_found is false.
C4_AsStated ==
    (/\ phase = "failed" /\ applyErr \in NoNodeErrors
     /\ rules[ruleIdx].Action # "delete")
        => ~rules[ruleIdx].ContinueOnNotFound

\* the tree after the first n rules, each applied to what the one before left
RECURSIVE TreeAfter(_, _, _)
TreeAfter(h, rs, n) == IF n = 0 THEN h ELSE Apply(TreeAfter(h, rs, n - 1), rs[n]).h

\* the first rule that fails on the tree the rules before it left; 0 when none does
FirstFailing(h, rs) ==
    LET failing == {k \in 1..Len(rs) : Apply(TreeAfter(h, rs, k - 1), rs[k]).err # ""}
    IN IF failing = {} THEN 0 ELSE CHOOSE k \in failing : \A j \in failing : k <= j

\* C5: the rules are applied in order, each to the tree the ones before it left; the
\* loop stops at the first failing rule, no rule after it is applied, and the tree
\* keeps what the rules before it did.
C5_InOrderNoRollback ==
    (phase \in {"running", "failed", "done"}) =>
        LET ff == FirstFailing(heap0, rules) IN
        /\ ruleIdx <= (IF ff = 0 THEN Len(rules) + 1 ELSE ff)
        /\ heap = TreeAfter(heap0, rules, ruleIdx - 1)
        /\ phase = "failed" => (ruleIdx = ff /\ applyErr # "")
        /\ phase = "done" => (ff = 0 /\ ruleIdx = Len(rules) + 1)

C5_Witness ==
    /\ phase = "failed"
    /\ ruleIdx = 2
    /\ heap # heap0
    /\ heap = Apply(heap0, rules[1]).h

\* C6: a regex that compile accepted in a Condition selector is evaluated at match
\* time without an error.
C6_AsStated ==
    (phase = "parsed" /\ parsed.err = "") =>
        \A k \in 1..Len(parsed.Segments) :
            (IsCondition(parsed.Segments[k]) /\ parsed.Segments[k].Selector.Op = "OpRegex")
                => ~regexpMatchString(parsed.Segments[k].Selector.Value, <<"b">>).err

\* C7: a path of the grammar compiles, to one segment per dot-separated component.
C7_AsStated ==
    (phase = "parsed" /\ pathComps # <<>>) =>
        (parsed.err = "" /\ Len(parsed.Segments) = Len(pathComps))

\* the brackets of s from i on, depth brackets being open: some ']' closes nothing
\* or some '[' is never closed
RECURSIVE UnmatchedFrom(_, _, _)
UnmatchedFrom(s, i, depth) ==
    IF i > Len(s) THEN depth # 0
    ELSE IF s[i] = "[" THEN UnmatchedFrom(s, i + 1, depth + 1)
    ELSE IF s[i] = "]" THEN depth = 0 \/ UnmatchedFrom(s, i + 1, depth - 1)
    ELSE UnmatchedFrom(s, i + 1, depth)

\* a segment starts with its selector
EmptyFieldName(s) ==
    \E i \in 1..Len(s) : s[i] = "[" /\ (i = 1 \/ s[i - 1] = ".")

\* C8: a path text with an unmatched bracket or an empty field name is a ParseError.
C8_AsStated ==
    (/\ phase = "parsed" /\ pathComps = <<>>
     /\ (UnmatchedFrom(pathStr, 1, 0) \/ EmptyFieldName(pathStr)))
        => parsed.err # ""

\* C9: compile returns an error or an Address of at least one segment.
C9_AsStated ==
    phase = "parsed" => (parsed.err # "" \/ Len(parsed.Segments) >= 1)

\* the rules C10 says load-time validation accepts
WellFormedRule(r) ==
    /\ r.Path # <<>>
    /\ CASE r.Action \in {"replace", "set"} -> r.Value.t # "nil"
         [] r.Action = "regex_replace" -> r.Pattern # <<>> /\ r.Value.t = "string"
         [] r.Action = "delete" -> TRUE
         [] OTHER -> FALSE

\* C10: Validate accepts a rule exactly when it is well-formed; a well-formed set
\* rule is accepted.
C10_AsStated ==
    phase = "validated" => ((applyErr = "") <=> WellFormedRule(TheRule))

\* the nodes a walk from n reaches through Content
RECURSIVE ReachableFrom(_, _)
ReachableFrom(h, n) ==
    {n} \cup UNION {ReachableFrom(h, h[n].Content[j]) : j \in 1..Len(h[n].Content)}

\* the nodes delete resolved on the tree as it was
Targets == {Candidates.nodes[j] : j \in 1..Len(Candidates.nodes)}

\* the entries of content (step 2: key/value pairs, step 1: elements) whose value is
\* no target, in their order
RECURSIVE WithoutTargets(_, _, _, _)
WithoutTargets(content, i, step, targets) ==
    IF i + step - 1 > Len(content) THEN <<>>
    ELSE (IF content[i + step - 1] \in targets THEN <<>> ELSE SubSeq(content, i, i + step - 1))
         \o WithoutTargets(content, i + step, step, targets)

\* C11: after a successful delete every Mapping and Sequence reachable from the root
\* holds its previous entries minus the targets (a Mapping: minus the pairs whose
\* value is a target), in their order; every other field of every reachable node is
\* as it was.
C11_DeleteFrame ==
    (phase = "applied" /\ TheRule.Action = "delete" /\ applyErr = "") =>
        /\ Len(heap) = Len(heap0)
        /\ \A n \in ReachableFrom(heap, root) :
              /\ heap[n].Kind = heap0[n].Kind
              /\ heap[n].Tag = heap0[n].Tag
              /\ heap[n].Value = heap0[n].Value
              /\ heap[n].Content =
                    CASE heap0[n].Kind = "MappingNode" ->
                           WithoutTargets(heap0[n].Content, 1, 2, Targets)
                      [] heap0[n].Kind = "SequenceNode" ->
                           WithoutTargets(heap0[n].Content, 1, 1, Targets)
                      [] OTHER -> heap0[n].Content
              /\ heap0[n].Kind \in {"MappingNode", "SequenceNode"} =>
                    \A j \in 1..Len(heap[n].Content) : heap[n].Content[j] \notin Targets

\* two targets, one beneath an element of a Sequence, are removed
C11_Witness ==
    /\ phase = "applied" /\ TheRule.Action = "delete" /\ applyErr = ""
    /\ Len(Candidates.nodes) = 2
    /\ Len(Parse(TheRule.Path).Segments) = 2
    /\ Targets \cap ReachableFrom(heap0, root) # {}
    /\ Targets \cap ReachableFrom(heap, root) = {}

\* the pattern is found somewhere in s
RegexMatches(pattern, s) == \E j \in 1..(Len(s) + 1) : matchHere(pattern, 1, s, j)

\* node n is a Mapping with a "name" member whose value passes the three checks of
\* the where-clause, each one only if it is set
NameAccepted(h, n, where) ==
    /\ h[n].Kind = "MappingNode"
    /\ mappingLookup(h, n, kName) # 0
    /\ LET name == h[mappingLookup(h, n, kName)].Value IN
       /\ where.NameRegex # <<>> => RegexMatches(where.NameRegex, name)
       /\ Len(where.NameNotIn) > 0 =>
              \A i \in 1..Len(where.NameNotIn) : name # where.NameNotIn[i]
       /\ Len(where.NameIn) > 0 =>
              \E i \in 1..Len(where.NameIn) : name = where.NameIn[i]

\* C12: findWithWhere returns the candidates of find unchanged when the where-clause
\* is absent; when it is present it returns, in candidate order, exactly the
\* candidates that are Mappings with a "name" member whose value passes the checks
\* that are set.
C12_AsStated ==
    (phase = "filtered" /\ parsed.err = "" /\ Find(heap, root, parsed).err = "") =>
        /\ found.err = ""
        /\ found.nodes =
              IF TheRule.Where.IsNil THEN Find(heap, root, parsed).nodes
              ELSE SelectSeq(Find(heap, root, parsed).nodes,
                             LAMBDA n : NameAccepted(heap, n, TheRule.Where))

\* the Mapping nodes of the store whose member seg.Field is a Sequence: the nodes
\* findArray gets past its three checks on
ArraySites(h, seg) ==
    {n \in 1..Len(h) :
        /\ h[n].Kind = "MappingNode"
        /\ mappingLookup(h, n, seg.Field) # 0
        /\ h[mappingLookup(h, n, seg.Field)].Kind = "SequenceNode"}

\* the elements of the Sequence segment seg selects from at site n
ElemsAt(h, n, seg) == h[mappingLookup(h, n, seg.Field)].Content

\* the document's top node
Top(h) == h[root].Content[1]

\* the results of the segments after k, element by element from element i on, in
\* element order; an element whose remainder does not resolve gives nothing
RECURSIVE ElementWise(_, _, _, _, _)
ElementWise(h, elems, i, segs, k) ==
    IF i > Len(elems) THEN <<>>
    ELSE (IF findRecursive(h, elems[i], segs, k + 1).err = ""
          THEN findRecursive(h, elems[i], segs, k + 1).nodes
          ELSE <<>>)
         \o ElementWise(h, elems, i + 1, segs, k)

\* C13: a Wildcard segment never fails because of an element: wherever it is applied
\* to a Sequence, the result is the concatenation, in element order, of the results
\* of the elements whose remaining segments resolve, without an error even when it
\* is empty; as the first segment this is what find returns.
C13_WildcardElementWise ==
    (phase = "found" /\ parsed.err = "") =>
        \A k \in 1..Len(parsed.Segments) :
            IsWildcard(parsed.Segments[k]) =>
                \A n \in ArraySites(heap, parsed.Segments[k]) :
                    /\ findRecursive(heap, n, parsed.Segments, k) =
                          [err |-> "",
                           nodes |-> ElementWise(heap, ElemsAt(heap, n, parsed.Segments[k]), 1,
                                                 parsed.Segments, k)]
                    /\ (k = 1 /\ n = Top(heap)) =>
                          found = [err |-> "",
                                   nodes |-> ElementWise(heap, ElemsAt(heap, n, parsed.Segments[k]),
                                                         1, parsed.Segments, k)]

\* one element is excluded (its remainder does not resolve), another one is kept
C13_Witness ==
    /\ phase = "found" /\ parsed.err = ""
    /\ Len(parsed.Segments) = 2 /\ IsWildcard(parsed.Segments[1])
    /\ Top(heap) \in ArraySites(heap, parsed.Segments[1])
    /\ \E i, j \in 1..Len(ElemsAt(heap, Top(heap), parsed.Segments[1])) :
          /\ findRecursive(heap, ElemsAt(heap, Top(heap), parsed.Segments[1])[i],
                           parsed.Segments, 2).err # ""
          /\ findRecursive(heap, ElemsAt(heap, Top(heap), parsed.Segments[1])[j],
                           parsed.Segments, 2).err = ""
    /\ found.err = "" /\ Len(found.nodes) >= 1

\* segment j selects at most one node: a Field segment or an Index selector
SingleValued(seg) == seg.Type = "SegmentTypeField" \/ seg.Selector.Type = "Index"

\* C14 as stated: whatever follows the Wildcard of an address (here: its only one,
\* applied to one Sequence), find returns at most as many nodes as that Sequence has
\* elements.
C14_AsStated ==
    (phase = "found" /\ parsed.err = "" /\ found.err = "") =>
        \A k \in 1..Len(parsed.Segments) :
            (/\ IsWildcard(parsed.Segments[k])
             /\ \A j \in 1..Len(parsed.Segments) : j # k => ~IsWildcard(parsed.Segments[j])
             /\ Cardinality(ReachedSeqs(heap, root, parsed.Segments, 1, k)) = 1) =>
                \A q \in ReachedSeqs(heap, root, parsed.Segments, 1, k) :
                    Len(found.nodes) <= Len(heap[q].Content)

\* C14 amended: when every other segment of the address selects at most one node (a
\* Field segment or an Index selector), find returns at most as many nodes as the
\* Sequence the Wildcard is applied to has elements.
C14_AtMostLengthWhenSingleValued ==
    (phase = "found" /\ parsed.err = "" /\ found.err = "") =>
        \A k \in 1..Len(parsed.Segments) :
            (/\ IsWildcard(parsed.Segments[k])
             /\ \A j \in 1..Len(parsed.Segments) : j # k => SingleValued(parsed.Segments[j])) =>
                \A q \in ReachedSeqs(heap, root, parsed.Segments, 1, k) :
                    Len(found.nodes) <= Len(heap[q].Content)

\* a Wildcard followed by a Field segment returns one node per element
C14_Witness ==
    /\ phase = "found" /\ parsed.err = "" /\ found.err = ""
    /\ Len(parsed.Segments) = 2 /\ IsWildcard(parsed.Segments[1])
    /\ parsed.Segments[2].Type = "SegmentTypeField"
    /\ \E q \in ReachedSeqs(heap, root, parsed.Segments, 1, 1) :
          Len(heap[q].Content) = 2 /\ Len(found.nodes) = 2

\* C15: an Index selector as the last segment, applied to a Sequence of length L,
\* gives exactly the element at position n when 0 <= n < L and the out-of-range
\* error for every other n; as the only segment this is what find returns.
C15_IndexBounds ==
    (phase = "found" /\ parsed.err = "") =>
        LET k == Len(parsed.Segments) IN
        (k >= 1 /\ parsed.Segments[k].Type = "SegmentTypeArray"
                /\ parsed.Segments[k].Selector.Type = "Index") =>
            \A n \in ArraySites(heap, parsed.Segments[k]) :
                LET idx == parsed.Segments[k].Selector.Index
                    elems == ElemsAt(heap, n, parsed.Segments[k])
                    expected == IF 0 <= idx /\ idx <= Len(elems) - 1
                                THEN [err |-> "", nodes |-> <<elems[idx + 1]>>]
                                ELSE [err |-> "index out of range", nodes |-> <<>>]
                IN /\ findRecursive(heap, n, parsed.Segments, k) = expected
                   /\ (k = 1 /\ n = Top(heap)) => found = expected

\* the index L of a non-empty Sequence of length L is out of range
C15_Witness ==
    /\ phase = "found" /\ parsed.err = ""
    /\ Len(parsed.Segments) = 1
    /\ parsed.Segments[1].Type = "SegmentTypeArray"
    /\ parsed.Segments[1].Selector.Type = "Index"
    /\ Top(heap) \in ArraySites(heap, parsed.Segments[1])
    /\ Len(ElemsAt(heap, Top(heap), parsed.Segments[1])) >= 1
    /\ parsed.Segments[1].Selector.Index = Len(ElemsAt(heap, Top(heap), parsed.Segments[1]))
    /\ found.err = "index out of range"

\* the nodes the rule's path resolves to on the tree as it was
Resolved == Find(heap0, root, Parse(TheRule.Path))

ResolvedSet == {Resolved.nodes[j] : j \in 1..Len(Resolved.nodes)}

\* the tag and the text of a string, integer or boolean value
TagOf(v) == CASE v.t = "string" -> "!!str" [] v.t = "int" -> "!!int" [] v.t = "bool" -> "!!bool"

TextOf(v) ==
    CASE v.t = "string" -> v.s
      [] v.t = "int" -> SprintInt(v.i)
      [] v.t = "bool" -> IF v.b THEN <<"t", "r", "u", "e">> ELSE <<"f", "a", "l", "s", "e">>

\* C16: a successful set with a string, integer or boolean value makes every
\* resolved node, whatever it was, a Scalar with the tag of the value's type and the
\* value's text; the node stays where it is in its parent: no other node changes.
C16_SetScalarTagging ==
    (/\ phase = "applied" /\ TheRule.Action = "set"
     /\ TheRule.Value.t \in {"string", "int", "bool"} /\ applyErr = "") =>
        /\ Len(Resolved.nodes) >= 1
        /\ Len(heap) = Len(heap0)
        /\ \A n \in 1..Len(heap) :
              IF n \in ResolvedSet
              THEN /\ heap[n].Kind = "ScalarNode"
                   /\ heap[n].Tag = TagOf(TheRule.Value)
                   /\ heap[n].Value = TextOf(TheRule.Value)
              ELSE heap[n] = heap0[n]

\* an integer set on a node that was a Mapping
C16_Witness ==
    /\ phase = "applied" /\ TheRule.Action = "set" /\ TheRule.Value.t = "int" /\ applyErr = ""
    /\ \E n \in ResolvedSet :
          /\ heap0[n].Kind = "MappingNode"
          /\ heap[n].Kind = "ScalarNode" /\ heap[n].Tag = "!!int" /\ heap[n].Value = <<"3">>

\* C17: a regex_replace whose path resolves to at least one node, with a pattern
\* that compiles and a string replacement, succeeds; the text of every resolved
\* Scalar is rewritten, and nothing else of the tree changes: resolved nodes that
\* are no Scalars and nodes that were not resolved are as they were.
C17_RegexReplaceFrame ==
    (/\ phase = "applied" /\ TheRule.Action = "regex_replace"
     /\ Parse(TheRule.Path).err = "" /\ Resolved.err = "" /\ Len(Resolved.nodes) >= 1
     /\ TheRule.Pattern # <<>> /\ regexpCompile(TheRule.Pattern)
     /\ TheRule.Value.t = "string") =>
        /\ applyErr = ""
        /\ Len(heap) = Len(heap0)
        /\ \A n \in 1..Len(heap) :
              IF n \in ResolvedSet /\ heap0[n].Kind = "ScalarNode"
              THEN heap[n] = [heap0[n] EXCEPT !.Value =
                                 ReplaceAllString(TheRule.Pattern, heap0[n].Value, 1,
                                                  TheRule.Value.s)]
              ELSE heap[n] = heap0[n]

\* of two resolved nodes the Scalar is rewritten and the Mapping is skipped
C17_Witness ==
    /\ phase = "applied" /\ TheRule.Action = "regex_replace" /\ applyErr = ""
    /\ \E n1, n2 \in ResolvedSet :
          /\ heap0[n1].Kind = "ScalarNode" /\ heap[n1].Value # heap0[n1].Value
          /\ heap0[n2].Kind = "MappingNode" /\ heap[n2] = heap0[n2]

\* C19: whenever apply returns an error, whatever the action and the cause (path
\* not compiled, navigation error, no nodes found, pattern missing or not compiled,
\* replacement not a string, value not encoded, unknown action), the tree is the
\* tree before the call.
C19_FailureLeavesTree ==
    (phase = "applied" /\ applyErr # "") => heap = heap0

\* a set on two resolved nodes fails on encoding its value
C19_Witness ==
    /\ phase = "applied" /\ TheRule.Action = "set"
    /\ Resolved.err = "" /\ Len(Resolved.nodes) = 2
    /\ applyErr = "encode value"
    /\ heap = heap0

\* the rule grafts a node: a replace, or a set with a composite value
IsComposite(v) == v.t \in {"map", "seq"}

Grafts(r) == r.Action = "replace" \/ (r.Action = "set" /\ IsComposite(r.Value))

\* the nodes beneath n
Beneath(h, n) == UNION {ReachableFrom(h, h[n].Content[j]) : j \in 1..Len(h[n].Content)}

\* the subtree of n as a value: what the encoder would write for it
RECURSIVE SubtreeValue(_, _)
SubtreeValue(h, n) ==
    [Kind |-> h[n].Kind, Tag |-> h[n].Tag, Value |-> h[n].Value,
     Kids |-> [j \in 1..Len(h[n].Content) |-> SubtreeValue(h, h[n].Content[j])]]

\* the rule is addressed beneath the first element of "s"
BeneathFirst(r) ==
    Len(r.Path) > 5 /\ SubSeq(r.Path, 1, 5) = <<"s", "[", "0", "]", ".">>

\* C18: after a replace, or a set with a composite value, that resolved to two or
\* more nodes, no two of the replaced nodes have a node beneath them in common; and
\* a later rule addressed beneath the first of them leaves the subtree of every
\* other one as it was.
C18_AsStated ==
    (/\ phase = "sequence" /\ ruleIdx >= 2 /\ Grafts(TheRule)
     /\ Apply(heap0, TheRule).err = "" /\ Len(Resolved.nodes) >= 2) =>
        /\ ruleIdx = 2 =>
              \A i, j \in 1..Len(Resolved.nodes) :
                  i # j => Beneath(heap, Resolved.nodes[i]) \cap Beneath(heap, Resolved.nodes[j]) = {}
        /\ (ruleIdx = 3 /\ BeneathFirst(rules[2])) =>
              \A j \in 2..Len(Resolved.nodes) :
                  SubtreeValue(heap, Resolved.nodes[j])
                      = SubtreeValue(TreeAfter(heap0, rules, 1), Resolved.nodes[j])

\* C20: in every tree a sequence of apply calls reaches, a Scalar node reachable
\* from the root has no child node.
C20_AsStated ==
    phase = "sequence" =>
        \A n \in ReachableFrom(heap, root) :
            heap[n].Kind = "ScalarNode" => heap[n].Content = <<>>


\* the entries of the walk that are .yaml/.yml files, by position
YamlFiles ==
    {p \in 1..Len(walk.entries) :
        /\ ~walk.entries[p].isDir
        /\ \/ HasSuffixStr(walk.entries[p].name, <<".", "y", "a", "m", "l">>)
           \/ HasSuffixStr(walk.entries[p].name, <<".", "y", "m", "l">>)}

\* the positions of FailedFiles that hold the path p
FailedAt(p) == {k \in 1..Len(result.FailedFiles) : result.FailedFiles[k].Path = p}

\* the steps the statement names: the relative path, the backup (made when backup is
\* asked for, the run is not dry and the files are rewritten in place) and a rule
RelFailed(e) == e.relErr
BackupFailed(e) ==
    walk.backup /\ ~walk.dryRun /\ ~walk.outputDir /\ (e.backupErr \/ e.io = "read file")
RuleFailed(e) ==
    e.io # "read file" /\ e.parses /\ FirstFailing(Unmarshal(e.doc), rules) # 0

\* the other steps of ProcessFile: read, parse, serialise, output directory, write
OtherStepFailed(e) ==
    \/ e.io = "read file"
    \/ ~e.parses
    \/ e.io = "marshal yaml"
    \/ ~walk.dryRun /\ e.io \in {"create output dir", "write file"}

\* TotalFiles = SuccessFiles + number of FailedFiles, and each .yaml/.yml file is
\* counted exactly once
Accounted ==
    /\ result.TotalFiles = result.SuccessFiles + Len(result.FailedFiles)
    /\ result.TotalFiles = Cardinality(YamlFiles)
    /\ \A k \in 1..Len(result.FailedFiles) : result.FailedFiles[k].Path \in YamlFiles
    /\ \A p \in YamlFiles : Cardinality(FailedAt(p)) <= 1

\* C21 as stated: after ProcessDirectory returns without a walk error every file is
\* accounted for, and a file is in FailedFiles exactly when its backup, its path
\* computation or a rule application failed.
C21_AsStated ==
    phase = "returned" =>
        /\ Accounted
        /\ \A p \in YamlFiles :
              FailedAt(p) # {} <=>
                  \/ RelFailed(walk.entries[p])
                  \/ BackupFailed(walk.entries[p])
                  \/ RuleFailed(walk.entries[p])

\* C21: after ProcessDirectory returns without a walk error, TotalFiles =
\* SuccessFiles + number of FailedFiles, each .yaml/.yml file is counted exactly once,
\* and a file is in FailedFiles exactly when its path computation, its backup or any
\* step of ProcessFile (read, parse, rule application, serialisation, creation of the
\* output directory, write) failed.
C21_FailedIffAnyStepFailed ==
    phase = "returned" =>
        /\ Accounted
        /\ \A p \in YamlFiles :
              FailedAt(p) # {} <=>
                  \/ RelFailed(walk.entries[p])
                  \/ BackupFailed(walk.entries[p])
                  \/ RuleFailed(walk.entries[p])
                  \/ OtherStepFailed(walk.entries[p])

\* the walk went on after a rule failed on the first file and rewrote the second
C21_Witness ==
    /\ phase = "returned"
    /\ Len(walk.entries) = 2
    /\ YamlFiles = {1, 2}
    /\ RuleFailed(walk.entries[1])
    /\ result.FailedFiles = <<[Path |-> 1, Error |-> "apply rule"]>>
    /\ result.TotalFiles = 2
    /\ result.SuccessFiles = 1
====
